---- MODULE Spec2Model ----
(***************************************************************************)
(* A model of internal/app/app.go of chatgpt-gtk4: the chat send/stream/   *)
(* persist flow, the image generate flow and the image save (copy) flow,   *)
(* with the single GTK main loop (UI thread), the goroutines the handlers  *)
(* spawn, the glib idle queue, the SQLite message table and the files.     *)
(***************************************************************************)
EXTENDS Integers, Sequences, FiniteSets, TLC

\* ------------------------------------------------------------------ bounds
MaxSends == 2       \* sends with non-empty text over the whole run
MaxChunks == 2      \* stream events one completion stream delivers
MaxClock == 1       \* seconds the wall clock advances (timestamps 0..MaxClock)
MaxRestarts == 1    \* times the application is closed and started again
MaxGens == 2        \* generates with a non-empty prompt
MaxSaves == 1       \* save dialogs opened

\* ------------------------------------------------------------------ inputs
Texts == {"", "h"}                \* contents of the chat input buffer
Deltas == {"a", "b"}              \* Delta.Content of a stream event
NoChoices == "<no choices>"       \* a stream event with len(evt.Choices) = 0
Chunks == Deltas \cup {NoChoices}
StreamErr == "stream failed"      \* err.Error() of a failed stream
Prompts == {"", "cat"}            \* contents of the image prompt entry
Outcomes == {"error", "nodata", "badb64", "image", "notimage"}
                                  \* what Images.Generate may return
Responses == {"accept", "nofile", "cancel"}
                                  \* how the save dialog may be answered
ModelIds == {"gpt-4o-mini", "gpt-4o"}       \* ids of the model selector's entries
DefaultTemperature == 7           \* gtk.NewAdjustment(0.7, ...), in tenths
Temperatures == {0, DefaultTemperature}     \* values of the scale, in tenths
Unset == <<>>                     \* a request parameter that is not set
Absent == [exists |-> FALSE, data |-> <<>>]   \* a path that names no file
NoPaintable == <<>>               \* Picture without a paintable (nil)
UiLoop == [gen |-> 0, off |-> 0]  \* the UI thread is in the main loop

VARIABLES
    store,          \* rows of table messages, in rowid order
    clock,          \* the wall clock, in seconds (CURRENT_TIMESTAMP)
    chatHistory,    \* the labels of the chat history box, in order
    sends,          \* per send: the closure state of onSendMessage's goroutine
    nsends,         \* sends started so far
    idleQ,          \* callbacks queued with glib.IdleAdd, oldest first
    statusBar,      \* text of the status bar label
    offThread,      \* UI objects a goroutine has touched off the UI thread
    ignored,        \* handlers that have returned early on empty input
    loaded,         \* what loadChatHistory read at the last start-up
    crashed,        \* the process died of a panic
    restarts,       \* restarts so far
    uiPc,           \* the UI thread: in the main loop, or inside os.WriteFile
    imageSpinner,   \* the spinner is spinning
    imagePaintable, \* what the Picture shows
    gens,           \* per generate: the state of onGenerateImage's goroutine
    ngens,          \* generates started so far
    files,          \* the file system: path -> content (sequence of blocks)
    saves,          \* per save: dialog, response goroutine, copy goroutine
    nsaves,         \* save dialogs opened so far
    modelCombo,     \* the active id of the model selector
    tempScale       \* the value of the temperature scale, in tenths

chatVars == <<store, clock, chatHistory, sends, nsends>>
sysVars == <<crashed, restarts, uiPc>>
histVars == <<offThread, ignored, loaded>>
imageVars == <<imageSpinner, imagePaintable, gens, ngens, files, saves, nsaves>>
settingVars == <<modelCombo, tempScale>>
vars == <<store, clock, chatHistory, sends, nsends, idleQ, statusBar,
          offThread, ignored, loaded, crashed, restarts, uiPc, imageSpinner,
          imagePaintable, gens, ngens, files, saves, nsaves, modelCombo,
          tempScale>>

SendIds == 1..MaxSends

\* fmt.Sprintf("%s: %s", role, content)
Format(role, content) == role \o ": " \o content

\* A callback handed to glib.IdleAdd.
Callback(kind, id, arg) == [kind |-> kind, id |-> id, arg |-> arg]

\* The UI thread is in the main loop and may dispatch a handler.
UiFree == ~crashed /\ uiPc = UiLoop

\* a.setStatus(message)
setStatus(message) == statusBar' = message

\* INSERT INTO messages (role, content) VALUES (?, ?): rowid is assigned in
\* insertion order, timestamp defaults to CURRENT_TIMESTAMP.  sid is not a
\* column: it records which send made the row.
InsertMessage(role, content, sid) ==
    Append(store, [role |-> role, content |-> content, ts |-> clock, sid |-> sid])

\* The closure state of one onSendMessage call: text, response and err are the
\* goroutine's variables, pending is the delta of the event it is handling.
\* requests (the requests it has opened at the completion service), deltas
\* (the deltas the stream has delivered, in arrival order), published (the
\* status its idle callback has set) and chosen (what the model selector and
\* the temperature scale showed when the handler ran) are history, not
\* program state.
NoSend ==
    [pc |-> "none", text |-> "", response |-> "", err |-> "", nchunks |-> 0,
     pending |-> "", requests |-> <<>>, deltas |-> <<>>, published |-> "",
     chosen |-> [model |-> "", temperature |-> 0]]

\* ------------------------------------------------------------------ chat
\* Variant of IsEmptyText: the handler without its early return.
IsEmptyTextNever(text) == FALSE

\* onSendMessage: if text == "" { return }
IsEmptyText(text) == text = ""

\* Variant of Accumulate: the delta put in front of the text so far.
AccumulatePrepend(response, delta) == delta \o response

\* response += evt.Choices[0].Delta.Content
Accumulate(response, delta) == response \o delta

\* A string header read while it is being overwritten, old buffer with the new
\* length: the old bytes followed by whatever follows them in memory.
TornRead(old, delta) == old \o "?"

\* The closure handed to glib.IdleAdd per chunk reads the goroutine's variable
\* response when it runs, not when it was queued, and without synchronisation:
\* it sees the current value or, when it runs while the goroutine is storing
\* the next value, that next value or a torn header.
ReadResponse(s) ==
    {sends[s].response} \cup
    (IF sends[s].pc = "writing"
     THEN {Accumulate(sends[s].response, sends[s].pending),
           TornRead(sends[s].response, sends[s].pending)}
     ELSE {})

\* openai.ChatCompletionNewParams of the streaming request: Messages and
\* Model (openai.ChatModelGPT4oMini) are set, Temperature is not.
ChatRequest(text) ==
    [messages |-> <<[role |-> "user", content |-> text]>>,
     model |-> "gpt-4o-mini",
     temperature |-> Unset]

\* Variant of SetAssistantLabel: the text is set on the last label of the
\* history box instead of the label the closure captured.
SetAssistantLabelLast(s, text) ==
    [i \in DOMAIN chatHistory |->
        IF i = Len(chatHistory)
        THEN [chatHistory[i] EXCEPT !.text = text]
        ELSE chatHistory[i]]

\* assistantLabel.SetText(text) on the label created by send s
SetAssistantLabel(s, text) ==
    [i \in DOMAIN chatHistory |->
        IF chatHistory[i].owner = s
        THEN [chatHistory[i] EXCEPT !.text = text]
        ELSE chatHistory[i]]

\* Variant of ReturnsAfterInsert: the handler goes on after a failed INSERT.
ReturnsAfterInsertNever(dbOk) == FALSE

\* onSendMessage after the INSERT of the user message:
\* if err != nil { a.setStatus("Error saving message"); return }
ReturnsAfterInsert(dbOk) == ~dbOk

\* onSendMessage, the part on the UI thread (signal handler of the button).
OnSendMessage(text, dbOk) ==
    /\ UiFree
    /\ IF IsEmptyText(text)
       THEN /\ ignored' = ignored \cup {"send"}
            /\ UNCHANGED <<chatVars, idleQ, statusBar>>
       ELSE /\ nsends < MaxSends
            /\ LET s == nsends + 1
                   userLabel == [owner |-> 0, text |-> Format("user", text)]
                   assistantLabel == [owner |-> s, text |-> "assistant: "]
                   new == [NoSend EXCEPT
                              !.text = text,
                              !.chosen = [model |-> modelCombo,
                                          temperature |-> tempScale]]
               IN  /\ nsends' = s
                   /\ store' = IF dbOk THEN InsertMessage("user", text, s) ELSE store
                   /\ statusBar' = IF dbOk THEN statusBar ELSE "Error saving message"
                   /\ IF ReturnsAfterInsert(dbOk)
                      THEN /\ chatHistory' = Append(chatHistory, userLabel)
                           /\ sends' = [sends EXCEPT ![s] =
                                [new EXCEPT !.pc = "returned"]]
                      ELSE /\ chatHistory' =
                                Append(Append(chatHistory, userLabel), assistantLabel)
                           /\ sends' = [sends EXCEPT ![s] =
                                [new EXCEPT !.pc = "spawned"]]
            /\ UNCHANGED <<clock, idleQ, ignored>>
    /\ UNCHANGED <<sysVars, settingVars, offThread, loaded, imageVars>>

\* The goroutine opens the stream: a.client.Chat.Completions.NewStreaming.
WorkerOpen(s) ==
    /\ ~crashed
    /\ sends[s].pc = "spawned"
    /\ sends' = [sends EXCEPT ![s].pc = "streaming",
                              ![s].requests = Append(@, ChatRequest(sends[s].text))]
    /\ UNCHANGED <<store, clock, chatHistory, nsends, idleQ, statusBar,
                   sysVars, settingVars, histVars, imageVars>>

\* One iteration of for stream.Next(): evt := stream.Current(); with
\* len(evt.Choices) > 0 the goroutine goes on to response += delta.
StreamChunk(s, c) ==
    /\ ~crashed
    /\ sends[s].pc = "streaming"
    /\ sends[s].nchunks < MaxChunks
    /\ sends' = [sends EXCEPT ![s].nchunks = @ + 1,
                              ![s].pc = IF c = NoChoices THEN "streaming" ELSE "writing",
                              ![s].pending = IF c = NoChoices THEN "" ELSE c]
    /\ UNCHANGED <<store, clock, chatHistory, nsends, idleQ, statusBar,
                   sysVars, settingVars, histVars, imageVars>>

\* response += evt.Choices[0].Delta.Content has been stored; glib.IdleAdd
\* queues the closure that updates the label.
StreamPublish(s) ==
    /\ ~crashed
    /\ sends[s].pc = "writing"
    /\ sends' = [sends EXCEPT ![s].pc = "streaming",
                              ![s].response = Accumulate(@, sends[s].pending),
                              ![s].deltas = Append(@, sends[s].pending),
                              ![s].pending = ""]
    /\ idleQ' = Append(idleQ, Callback("label", s, ""))
    /\ UNCHANGED <<store, clock, chatHistory, nsends, statusBar, sysVars,
                   settingVars, histVars, imageVars>>

\* Variant of ReturnsAfterStream: the goroutine goes on after a stream error.
ReturnsAfterStreamNever(failed) == FALSE

\* The goroutine after the stream loop:
\* if err := stream.Err(); err != nil { glib.IdleAdd(...); return }
ReturnsAfterStream(failed) == failed

\* stream.Next() returned false; stream.Err() is nil or an error.
StreamEnd(s, failed) ==
    /\ ~crashed
    /\ sends[s].pc = "streaming"
    /\ idleQ' = IF failed
                THEN Append(idleQ, Callback("status", s, "API Error: " \o StreamErr))
                ELSE idleQ
    /\ sends' = [sends EXCEPT
                    ![s].pc = IF ReturnsAfterStream(failed) THEN "failed" ELSE "persist",
                    ![s].err = IF failed THEN StreamErr ELSE ""]
    /\ UNCHANGED <<store, clock, chatHistory, nsends, statusBar, sysVars,
                   settingVars, histVars, imageVars>>

\* The goroutine's INSERT of the assistant message after a clean stream end.
PersistAssistant(s, dbOk) ==
    /\ ~crashed
    /\ sends[s].pc = "persist"
    /\ IF dbOk
       THEN /\ store' = InsertMessage("assistant", sends[s].response, s)
            /\ UNCHANGED idleQ
       ELSE /\ idleQ' = Append(idleQ, Callback("status", s, "Error saving response"))
            /\ UNCHANGED store
    /\ sends' = [sends EXCEPT ![s].pc = "done"]
    /\ UNCHANGED <<clock, chatHistory, nsends, statusBar, sysVars,
                   settingVars, histVars, imageVars>>

\* The main loop runs the oldest idle callback of a chunk:
\* assistantLabel.SetText(fmt.Sprintf("assistant: %s", response)).
IdleLabel ==
    /\ UiFree
    /\ idleQ /= <<>>
    /\ Head(idleQ).kind = "label"
    /\ \E r \in ReadResponse(Head(idleQ).id) :
            chatHistory' = SetAssistantLabel(Head(idleQ).id, Format("assistant", r))
    /\ idleQ' = Tail(idleQ)
    /\ UNCHANGED <<store, clock, sends, nsends, statusBar, sysVars,
                   settingVars, histVars, imageVars>>

\* The main loop runs the oldest idle callback of a send that only calls
\* a.setStatus.
IdleStatus ==
    /\ UiFree
    /\ idleQ /= <<>>
    /\ Head(idleQ).kind = "status"
    /\ setStatus(Head(idleQ).arg)
    /\ sends' = [sends EXCEPT ![Head(idleQ).id].published = Head(idleQ).arg]
    /\ idleQ' = Tail(idleQ)
    /\ UNCHANGED <<store, clock, chatHistory, nsends, sysVars, settingVars,
                   histVars, imageVars>>

\* The user picks an entry of the model selector (gtk.ComboBoxText).
SelectModel(m) ==
    /\ UiFree
    /\ modelCombo' = m
    /\ UNCHANGED <<chatVars, idleQ, statusBar, histVars, sysVars, tempScale,
                   imageVars>>

\* The user moves the temperature scale (gtk.Scale).
SetTemperature(t) ==
    /\ UiFree
    /\ tempScale' = t
    /\ UNCHANGED <<chatVars, idleQ, statusBar, histVars, sysVars, modelCombo,
                   imageVars>>

\* A second of wall-clock time passes.
Tick ==
    /\ clock < MaxClock
    /\ clock' = clock + 1
    /\ UNCHANGED <<store, chatHistory, sends, nsends, idleQ, statusBar,
                   sysVars, settingVars, histVars, imageVars>>

\* ------------------------------------------------------------------ image
CachePath == "temp.png"           \* filepath.Join(a.configDir(), "temp.png")
DestPath == "generated-image.png" \* the path chosen in the save dialog
\* os.CreateTemp(filepath.Dir(dest), "*.png") of save v: a fresh name
Tmp(v) == "tmp" \o ToString(v) \o ".png"
Paths == {CachePath, DestPath} \cup {Tmp(v) : v \in 1..MaxSaves}

File(data) == [exists |-> TRUE, data |-> data]
OldImage == <<"old", "old">>      \* a file already at the destination

\* The bytes base64.StdEncoding.DecodeString yields for the payload of
\* generate g, as two blocks; "notimage" decodes to bytes that are no image.
ImageBytes(g, outcome) ==
    IF outcome = "image"
    THEN <<"img" \o ToString(g), "img" \o ToString(g)>>
    ELSE <<"txt", "txt">>

\* The closure state of one onGenerateImage call: prompt and the result of the
\* request.  before (the paintable shown
\* when the handler was entered) is history, not program state.
NoGen == [pc |-> "none", prompt |-> "", result |-> "", before |-> NoPaintable]

\* The state of one onSaveImage call: its dialog, its response goroutine and
\* its copy goroutine (off: blocks copied so far).
NoSave == [pc |-> "none", resp |-> "", off |-> 0, err |-> ""]

\* onGenerateImage: if prompt == "" { return }
IsEmptyPrompt(prompt) == prompt = ""

\* Variant of PaintableOnGenerate: the display is not cleared.
PaintableOnGenerateKept(current) == current

\* onGenerateImage on entry, after the prompt check:
\* a.imageSpinner.Start(); a.imageDisplay.SetPaintable(nil)
PaintableOnGenerate(current) == NoPaintable

\* onGenerateImage, the part on the UI thread.
OnGenerateImage(prompt) ==
    /\ UiFree
    /\ IF IsEmptyPrompt(prompt)
       THEN /\ ignored' = ignored \cup {"generate"}
            /\ UNCHANGED <<imageSpinner, imagePaintable, gens, ngens>>
       ELSE /\ ngens < MaxGens
            /\ ngens' = ngens + 1
            /\ imageSpinner' = TRUE
            /\ imagePaintable' = PaintableOnGenerate(imagePaintable)
            /\ gens' = [gens EXCEPT ![ngens + 1] =
                          [NoGen EXCEPT !.pc = "request", !.prompt = prompt,
                                        !.before = imagePaintable]]
            /\ UNCHANGED ignored
    /\ UNCHANGED <<chatVars, idleQ, statusBar, offThread, loaded, sysVars,
                   settingVars, files, saves, nsaves>>

\* a.client.Images.Generate returns in the goroutine, which hands the result
\* to the UI thread with glib.IdleAdd.
ImageResponse(g, outcome) ==
    /\ ~crashed
    /\ gens[g].pc = "request"
    /\ gens' = [gens EXCEPT ![g].pc = "queued", ![g].result = outcome]
    /\ idleQ' = Append(idleQ, Callback("image", g, outcome))
    /\ UNCHANGED <<chatVars, statusBar, histVars, sysVars, settingVars,
                   imageSpinner, imagePaintable, ngens, files, saves, nsaves>>

\* The idle callback of a generate up to os.WriteFile's open: spinner stop,
\* the err check, result.Data[0], the base64 decode, and the open
\* (O_WRONLY|O_CREATE|O_TRUNC) of the cache file.
IdleImage(openOk) ==
    /\ UiFree
    /\ idleQ /= <<>>
    /\ Head(idleQ).kind = "image"
    /\ idleQ' = Tail(idleQ)
    /\ imageSpinner' = FALSE
    /\ LET g == Head(idleQ).id
           outcome == Head(idleQ).arg
       IN  CASE outcome = "error" ->
                  /\ setStatus("Image Generation Error: request failed")
                  /\ gens' = [gens EXCEPT ![g].pc = "failed"]
                  /\ UNCHANGED <<crashed, uiPc, files>>
             [] outcome = "nodata" ->
                  \* index out of range [0] with length 0: the callback panics
                  /\ crashed' = TRUE
                  /\ gens' = [gens EXCEPT ![g].pc = "panicked"]
                  /\ UNCHANGED <<statusBar, uiPc, files>>
             [] outcome = "badb64" ->
                  /\ setStatus("Image Decode Error: illegal base64 data")
                  /\ gens' = [gens EXCEPT ![g].pc = "failed"]
                  /\ UNCHANGED <<crashed, uiPc, files>>
             [] outcome \in {"image", "notimage"} ->
                  IF openOk
                  THEN /\ files' = [files EXCEPT ![CachePath] = File(<<>>)]
                       /\ uiPc' = [gen |-> g, off |-> 0]
                       /\ gens' = [gens EXCEPT ![g].pc = "writing"]
                       /\ UNCHANGED <<statusBar, crashed>>
                  ELSE /\ setStatus("File Error: open failed")
                       /\ gens' = [gens EXCEPT ![g].pc = "failed"]
                       /\ UNCHANGED <<crashed, uiPc, files>>
    /\ UNCHANGED <<chatVars, histVars, restarts, settingVars, imagePaintable,
                   ngens, saves, nsaves>>

\* The idle callback of a generate inside os.WriteFile: the next block is
\* written to the cache file, or the write fails; after the last block,
\* gdk.NewTextureFromBytes, SetPaintable and the success status.
IdleImageWrite(writeOk) ==
    /\ ~crashed
    /\ uiPc /= UiLoop
    /\ LET g == uiPc.gen
           bytes == ImageBytes(g, gens[g].result)
           off == uiPc.off + 1
       IN  IF ~writeOk
           THEN /\ setStatus("File Error: write failed")
                /\ gens' = [gens EXCEPT ![g].pc = "failed"]
                /\ uiPc' = UiLoop
                /\ UNCHANGED <<files, imagePaintable>>
           ELSE /\ files' = [files EXCEPT ![CachePath] =
                               File(Append(files[CachePath].data, bytes[off]))]
                /\ IF off < Len(bytes)
                   THEN /\ uiPc' = [uiPc EXCEPT !.off = off]
                        /\ UNCHANGED <<gens, statusBar, imagePaintable>>
                   ELSE /\ uiPc' = UiLoop
                        /\ IF gens[g].result = "image"
                           THEN /\ imagePaintable' = bytes
                                /\ setStatus("Image generated successfully")
                                /\ gens' = [gens EXCEPT ![g].pc = "shown"]
                           ELSE /\ setStatus("Error creating texture: bad image")
                                /\ gens' = [gens EXCEPT ![g].pc = "notexture"]
                                /\ UNCHANGED imagePaintable
    /\ UNCHANGED <<chatVars, idleQ, histVars, crashed, restarts, settingVars,
                   imageSpinner, ngens, saves, nsaves>>


\* ------------------------------------------------------------------ save
\* onSaveImage, the part on the UI thread: the dialog is built and shown, the
\* goroutine that waits on responseChan is started.
OnSaveImage ==
    /\ UiFree
    /\ nsaves < MaxSaves
    /\ nsaves' = nsaves + 1
    /\ saves' = [saves EXCEPT ![nsaves + 1] = [NoSave EXCEPT !.pc = "dialog"]]
    /\ UNCHANGED <<chatVars, idleQ, statusBar, histVars, sysVars, settingVars,
                   imageSpinner, imagePaintable, gens, ngens, files>>

\* The dialog's response signal on the UI thread: responseChan <- response,
\* received by the waiting goroutine.
DialogResponse(v, r) ==
    /\ UiFree
    /\ saves[v].pc = "dialog"
    /\ saves' = [saves EXCEPT ![v].pc = "responded", ![v].resp = r]
    /\ UNCHANGED <<chatVars, idleQ, statusBar, histVars, sysVars, settingVars,
                   imageSpinner, imagePaintable, gens, ngens, files, nsaves>>

\* The response goroutine after the receive: dialog.File(), then either the
\* "no file" status, or the copy goroutine and dialog.Destroy(); on any other
\* response dialog.Destroy() alone.  All of it runs in the goroutine.
SaveWorker(v) ==
    /\ ~crashed
    /\ saves[v].pc = "responded"
    /\ offThread' = offThread \cup {"dialog"}
    /\ CASE saves[v].resp = "accept" ->
              /\ saves' = [saves EXCEPT ![v].pc = "copy"]
              /\ UNCHANGED idleQ
         [] saves[v].resp = "nofile" ->
              /\ saves' = [saves EXCEPT ![v].pc = "nofile"]
              /\ idleQ' = Append(idleQ, Callback("saveStatus", v, "Error: No file selected"))
         [] saves[v].resp = "cancel" ->
              /\ saves' = [saves EXCEPT ![v].pc = "cancelled"]
              /\ UNCHANGED idleQ
    /\ UNCHANGED <<chatVars, statusBar, ignored, loaded, sysVars, settingVars,
                   imageSpinner, imagePaintable, gens, ngens, files, nsaves>>

\* Variant of CopyWorkerRuns: the copy run as a callback on the UI thread.
CopyWorkerRunsOnUi(v) == UiFree

\* go func() { err := copyImageFile(tempFile, path) ... }(): the copy runs in
\* a goroutine of its own, which takes no lock and waits for nothing.
CopyWorkerRuns(v) == ~crashed

\* Variant of CopyTarget: the copy is written to dest itself.
CopyTargetInPlace(v) == DestPath

\* copyImageFile writes the copy to the file os.CreateTemp made beside dest.
CopyTarget(v) == Tmp(v)

\* The copy goroutine returns err from copyImageFile:
\* glib.IdleAdd(func() { a.setStatus("Error saving image: ...") }).
CopyFailed(v, err) ==
    /\ saves' = [saves EXCEPT ![v].pc = "failed", ![v].err = err]
    /\ idleQ' = Append(idleQ, Callback("saveStatus", v, "Error saving image: " \o err))

\* copyImageFile up to the copy loop: os.MkdirAll, os.Open(src),
\* os.CreateTemp, each of which may fail; os.Open fails when src is absent.
CopyStart(v, fail) ==
    /\ CopyWorkerRuns(v)
    /\ saves[v].pc = "copy"
    /\ IF fail /= "" \/ ~files[CachePath].exists
       THEN /\ CopyFailed(v, IF fail = "" THEN "open" ELSE fail)
            /\ UNCHANGED files
       ELSE /\ files' = [files EXCEPT ![CopyTarget(v)] = File(<<>>)]
            /\ saves' = [saves EXCEPT ![v].pc = "copying"]
            /\ UNCHANGED idleQ
    /\ UNCHANGED <<chatVars, statusBar, histVars, sysVars, settingVars,
                   imageSpinner, imagePaintable, gens, ngens, nsaves>>

\* One round of io.Copy(tmpFile, srcFile): the next block of the source as it
\* is now is appended to the temporary file; at end of file the loop ends and
\* tmpFile.Close() follows; on an error the deferred os.Remove(tmpPath) runs.
CopyBlock(v, ok) ==
    /\ CopyWorkerRuns(v)
    /\ saves[v].pc = "copying"
    /\ IF ~ok
       THEN /\ CopyFailed(v, "copy")
            /\ files' = [files EXCEPT ![CopyTarget(v)] = Absent]
       ELSE IF saves[v].off < Len(files[CachePath].data)
            THEN /\ files' = [files EXCEPT ![CopyTarget(v)] =
                        File(Append(@.data, files[CachePath].data[saves[v].off + 1]))]
                 /\ saves' = [saves EXCEPT ![v].off = @ + 1]
                 /\ UNCHANGED idleQ
            ELSE /\ saves' = [saves EXCEPT ![v].pc = "rename"]
                 /\ UNCHANGED <<files, idleQ>>
    /\ UNCHANGED <<chatVars, statusBar, histVars, sysVars, settingVars,
                   imageSpinner, imagePaintable, gens, ngens, nsaves>>

\* os.Rename(tmpPath, dest), then the deferred os.Remove(tmpPath), then the
\* status is handed to the UI thread.
CopyRename(v, ok) ==
    /\ CopyWorkerRuns(v)
    /\ saves[v].pc = "rename"
    /\ IF ok
       THEN /\ files' = [[files EXCEPT ![DestPath] = files[CopyTarget(v)]]
                            EXCEPT ![Tmp(v)] = Absent]
            /\ saves' = [saves EXCEPT ![v].pc = "saved"]
            /\ idleQ' = Append(idleQ,
                   Callback("saveStatus", v, "Image saved to: " \o DestPath))
       ELSE /\ CopyFailed(v, "rename")
            /\ files' = [files EXCEPT ![CopyTarget(v)] = Absent]
    /\ UNCHANGED <<chatVars, statusBar, histVars, sysVars, settingVars,
                   imageSpinner, imagePaintable, gens, ngens, nsaves>>

\* The main loop runs the oldest idle callback of a save: a.setStatus.
IdleSaveStatus ==
    /\ UiFree
    /\ idleQ /= <<>>
    /\ Head(idleQ).kind = "saveStatus"
    /\ setStatus(Head(idleQ).arg)
    /\ idleQ' = Tail(idleQ)
    /\ UNCHANGED <<chatVars, histVars, sysVars, settingVars, imageVars>>

\* ------------------------------------------------------------------ start-up
\* SELECT role, content FROM messages ORDER BY timestamp: the orders in which
\* the query may return the rows.  Rows are sorted by the timestamp column
\* alone; SQL leaves the relative order of rows with equal keys unspecified.
OrderedByTimestamp(p) ==
    \A i, j \in DOMAIN store : i < j => store[p[i]].ts <= store[p[j]].ts

QueryOrders == {p \in Permutations(DOMAIN store) : OrderedByTimestamp(p)}

\* loadChatHistory: one label per row, in the order the query returns them
\* (addMessageToUI(role, content)).
loadChatHistory(p) ==
    [i \in DOMAIN store |->
        [owner |-> 0, text |-> Format(store[p[i]].role, store[p[i]].content)]]

\* What ends with the process: goroutines and their closures.
Killed(rec) ==
    IF rec.pc \in {"none", "returned", "failed", "done", "shown", "notexture",
                 "panicked", "saved", "cancelled", "nofile"}
    THEN rec ELSE [rec EXCEPT !.pc = "dead"]

\* cleanup (ConnectShutdown): os.Remove(tempFile)
cleanup == [files EXCEPT ![CachePath] = Absent]

\* The application ends (a clean shutdown runs cleanup; a kill or a panic does
\* not) and is started again: setupUI, createMainWindow, loadChatHistory.
Restart(clean, p) ==
    /\ restarts < MaxRestarts
    /\ crashed => ~clean
    /\ p \in QueryOrders
    /\ restarts' = restarts + 1
    /\ chatHistory' = loadChatHistory(p)
    /\ loaded' = [i \in DOMAIN store |-> store[p[i]]]
    /\ sends' = [s \in SendIds |-> Killed(sends[s])]
    /\ gens' = [g \in DOMAIN gens |-> Killed(gens[g])]
    /\ saves' = [v \in DOMAIN saves |-> Killed(saves[v])]
    /\ idleQ' = <<>>
    /\ statusBar' = ""
    /\ crashed' = FALSE
    /\ uiPc' = UiLoop
    /\ imageSpinner' = FALSE
    /\ imagePaintable' = NoPaintable
    /\ files' = IF clean THEN cleanup ELSE files
    /\ modelCombo' = "gpt-4o-mini"
    /\ tempScale' = DefaultTemperature
    /\ UNCHANGED <<store, clock, nsends, offThread, ignored, ngens, nsaves>>

Init ==
    /\ store = <<>>
    /\ clock = 0
    /\ chatHistory = <<>>
    /\ sends = [s \in SendIds |-> NoSend]
    /\ nsends = 0
    /\ idleQ = <<>>
    /\ statusBar = ""
    /\ offThread = {}
    /\ ignored = {}
    /\ loaded = <<>>
    /\ crashed = FALSE
    /\ restarts = 0
    /\ uiPc = UiLoop
    /\ imageSpinner = FALSE
    /\ imagePaintable = NoPaintable
    /\ gens = [g \in 1..MaxGens |-> NoGen]
    /\ ngens = 0
    /\ files \in {[f \in Paths |-> IF f = DestPath THEN d ELSE Absent] :
                        d \in {Absent, File(OldImage)}}
    /\ saves = [v \in 1..MaxSaves |-> NoSave]
    /\ nsaves = 0
    /\ modelCombo = "gpt-4o-mini"
    /\ tempScale = DefaultTemperature

\* The chat panel: sends with non-empty text, their streams and the idle
\* callbacks they queue.
NextChat ==
    \/ \E text \in Texts \ {""}, dbOk \in BOOLEAN : OnSendMessage(text, dbOk)
    \/ \E s \in SendIds : WorkerOpen(s)
    \/ \E s \in SendIds, c \in Chunks : StreamChunk(s, c)
    \/ \E s \in SendIds : StreamPublish(s)
    \/ \E s \in SendIds, failed \in BOOLEAN : StreamEnd(s, failed)
    \/ \E s \in SendIds, dbOk \in BOOLEAN : PersistAssistant(s, dbOk)
    \/ IdleLabel
    \/ IdleStatus

SpecChat == Init /\ [][NextChat]_vars

\* The message table over several runs of the application: every step of a
\* send, with one input text and one delta, the clock, and restarts.
NextStore ==
    \/ \E dbOk \in BOOLEAN : OnSendMessage("h", dbOk)
    \/ \E s \in SendIds : WorkerOpen(s)
    \/ \E s \in SendIds : StreamChunk(s, "a")
    \/ \E s \in SendIds : StreamPublish(s)
    \/ \E s \in SendIds, failed \in BOOLEAN : StreamEnd(s, failed)
    \/ \E s \in SendIds, dbOk \in BOOLEAN : PersistAssistant(s, dbOk)
    \/ IdleLabel
    \/ IdleStatus
    \/ Tick
    \/ \E clean \in BOOLEAN, p \in QueryOrders : Restart(clean, p)

SpecStore == Init /\ [][NextStore]_vars

\* The image panel: generates with a non-empty prompt, saves, and the
\* application ending at any point.
NextImage ==
    \/ \E prompt \in Prompts \ {""} : OnGenerateImage(prompt)
    \/ \E g \in 1..MaxGens, outcome \in Outcomes : ImageResponse(g, outcome)
    \/ \E openOk \in BOOLEAN : IdleImage(openOk)
    \/ \E writeOk \in BOOLEAN : IdleImageWrite(writeOk)
    \/ OnSaveImage
    \/ \E v \in 1..MaxSaves, r \in Responses : DialogResponse(v, r)
    \/ \E v \in 1..MaxSaves : SaveWorker(v)
    \/ \E v \in 1..MaxSaves, fail \in {"", "mkdir", "open", "createtemp"} :
          CopyStart(v, fail)
    \/ \E v \in 1..MaxSaves, ok \in BOOLEAN : CopyBlock(v, ok)
    \/ \E v \in 1..MaxSaves, ok \in BOOLEAN : CopyRename(v, ok)
    \/ IdleSaveStatus
    \/ \E clean \in BOOLEAN, p \in QueryOrders : Restart(clean, p)

SpecImage == Init /\ [][NextImage]_vars

\* Both panels side by side, with empty and non-empty input: the send button
\* and the generate button, each pressed with non-empty input while no earlier
\* send (or generate) has been started, and with empty input at any time.
NextPanels ==
    \/ \E text \in Texts, dbOk \in BOOLEAN :
          (text = "" \/ nsends = 0) /\ OnSendMessage(text, dbOk)
    \/ \E s \in SendIds : WorkerOpen(s)
    \/ \E s \in SendIds, c \in Chunks : StreamChunk(s, c)
    \/ \E s \in SendIds : StreamPublish(s)
    \/ \E s \in SendIds, failed \in BOOLEAN : StreamEnd(s, failed)
    \/ \E s \in SendIds, dbOk \in BOOLEAN : PersistAssistant(s, dbOk)
    \/ IdleLabel
    \/ IdleStatus
    \/ \E prompt \in Prompts : (prompt = "" \/ ngens = 0) /\ OnGenerateImage(prompt)
    \/ \E g \in 1..MaxGens, outcome \in Outcomes : ImageResponse(g, outcome)
    \/ \E openOk \in BOOLEAN : IdleImage(openOk)
    \/ \E writeOk \in BOOLEAN : IdleImageWrite(writeOk)

SpecPanels == Init /\ [][NextPanels]_vars

\* The header bar and the chat panel: the model selector, the temperature
\* scale and every step of a send, with one input text and one delta.
NextSettings ==
    \/ \E m \in ModelIds : SelectModel(m)
    \/ \E t \in Temperatures : SetTemperature(t)
    \/ \E dbOk \in BOOLEAN : OnSendMessage("h", dbOk)
    \/ \E s \in SendIds : WorkerOpen(s)
    \/ \E s \in SendIds : StreamChunk(s, "a")
    \/ \E s \in SendIds : StreamPublish(s)
    \/ \E s \in SendIds, failed \in BOOLEAN : StreamEnd(s, failed)
    \/ \E s \in SendIds, dbOk \in BOOLEAN : PersistAssistant(s, dbOk)
    \/ IdleLabel
    \/ IdleStatus

SpecSettings == Init /\ [][NextSettings]_vars

\* The whole program.
Next == NextChat \/ NextStore \/ NextImage \/ NextPanels \/ NextSettings

Spec == Init /\ [][Next]_vars

\* ------------------------------------------------------------------ claims
RECURSIVE Concat(_)
\* The concatenation of a sequence of strings, in order.
Concat(seq) == IF seq = <<>> THEN "" ELSE Head(seq) \o Concat(Tail(seq))

\* The rows of the given role that send s inserted.
RowsOf(s, role) == {i \in DOMAIN store : store[i].sid = s /\ store[i].role = role}

\* The idle callbacks of the given kind that send s has queued and that have
\* not run yet.
Queued(s, kind) == {i \in DOMAIN idleQ : idleQ[i].id = s /\ idleQ[i].kind = kind}

Started(s) == sends[s].pc /= "none"

\* C1 as stated: every send with non-empty text has appended exactly one user
\* message with that text (and did so before its request was opened).
C1_ExactlyOneUserMessage ==
    \A s \in SendIds : Started(s) =>
        /\ Cardinality(RowsOf(s, "user")) = 1
        /\ \A i \in RowsOf(s, "user") : store[i].content = sends[s].text

\* C1 amended: a send with non-empty text makes one attempt to append the user
\* message.  If the append succeeds, exactly one user row with that exact text
\* exists, and it exists before the request is opened and whatever the stream
\* does later; if the append fails, no row is appended, the status is set to
\* "Error saving message" at once and no request is ever opened.
C1_UserMessageBeforeRequest ==
    \A s \in SendIds : Started(s) =>
        /\ Cardinality(RowsOf(s, "user")) <= 1
        /\ \A i \in RowsOf(s, "user") : store[i].content = sends[s].text
        /\ sends[s].requests /= <<>> => Cardinality(RowsOf(s, "user")) = 1
        /\ sends[s].pc /= "returned" => Cardinality(RowsOf(s, "user")) = 1
        /\ sends[s].pc = "returned" =>
              RowsOf(s, "user") = {} /\ sends[s].requests = <<>>

\* A send whose stream failed after the request was opened still has its one
\* user row.
C1_Witness ==
    \E s \in SendIds :
        /\ sends[s].pc = "failed"
        /\ Len(sends[s].requests) = 1
        /\ Cardinality(RowsOf(s, "user")) = 1

\* C2 as stated: once the goroutine of a send whose stream ended without error
\* has finished, exactly one assistant message is persisted for the send.
C2_ExactlyOneAssistantMessage ==
    \A s \in SendIds :
        (sends[s].pc = "done" /\ sends[s].err = "") =>
            Cardinality(RowsOf(s, "assistant")) = 1

\* C2 amended: for a send whose stream ended without error the goroutine makes
\* one attempt to persist one assistant message, after the stream has ended,
\* with the concatenation in arrival order of the stream's deltas as content.
\* If the insert succeeds exactly one assistant row exists for the send; if it
\* fails none exists and "Error saving response" is published.
C2_AssistantIsConcatenation ==
    \A s \in SendIds :
        /\ Cardinality(RowsOf(s, "assistant")) <= 1
        /\ \A i \in RowsOf(s, "assistant") :
              /\ sends[s].pc = "done"
              /\ sends[s].err = ""
              /\ store[i].content = Concat(sends[s].deltas)
        /\ (sends[s].pc = "done" /\ RowsOf(s, "assistant") = {}) =>
              \/ Queued(s, "status") /= {}
              \/ sends[s].published = "Error saving response"

\* A stream of two different deltas ended cleanly and its message is stored.
C2_Witness ==
    \E s \in SendIds :
        /\ sends[s].pc = "done"
        /\ Len(sends[s].deltas) = 2
        /\ sends[s].deltas[1] /= sends[s].deltas[2]
        /\ Cardinality(RowsOf(s, "assistant")) = 1

\* C3: a send whose stream ended with an error has no assistant row, has
\* opened one request only (no retry), and its error status is queued for the
\* UI thread or has been set by it.
C3_FailedStreamNotPersisted ==
    \A s \in SendIds : sends[s].err /= "" =>
        /\ RowsOf(s, "assistant") = {}
        /\ Len(sends[s].requests) = 1
        /\ sends[s].pc = "failed"
        /\ \/ \E i \in Queued(s, "status") : idleQ[i].arg = "API Error: " \o sends[s].err
           \/ sends[s].published = "API Error: " \o sends[s].err

\* A stream failed after a delta had been received and displayed, and the
\* error status has reached the status bar.
C3_Witness ==
    \E s \in SendIds :
        /\ sends[s].err /= ""
        /\ sends[s].deltas /= <<>>
        /\ \E i \in DOMAIN chatHistory :
              chatHistory[i].owner = s /\ chatHistory[i].text /= "assistant: "
        /\ statusBar = "API Error: " \o StreamErr

\* C4: what loadChatHistory read at the last start-up is the rows that were in
\* the table then, in exactly their insertion order (rows are only ever
\* appended, so these are the first Len(loaded) rows of the table).
C4_LoadInInsertionOrder == loaded = SubSeq(store, 1, Len(loaded))

\* The number of per-chunk publications of send s the UI thread has applied.
Applied(s) == Len(sends[s].deltas) - Cardinality(Queued(s, "label"))

\* C9: once the publication of the k-th delta of a send has been applied, the
\* assistant label of that send shows the concatenation of deltas 1..k, the
\* text accumulated when that delta arrived.
C9_PublicationShowsArrivalText ==
    \A s \in SendIds : Applied(s) >= 1 =>
        \A i \in DOMAIN chatHistory : chatHistory[i].owner = s =>
            chatHistory[i].text =
                Format("assistant", Concat(SubSeq(sends[s].deltas, 1, Applied(s))))

\* C5: the destination of a save changes in one step only, the os.Rename of a
\* copy whose copy loop has run to the end of the source and whose temporary
\* file is closed, and it then holds exactly what that temporary file held; in
\* every other step (any step of any copy, a failure at any step, the
\* application ending) it keeps its prior content or stays absent.
C5_DestinationAtomic ==
    [][files'[DestPath] /= files[DestPath] =>
          \E v \in 1..MaxSaves :
              /\ saves[v].pc = "rename"
              /\ saves'[v].pc = "saved"
              /\ files'[DestPath] = files[Tmp(v)]]_vars

\* A copy was interrupted after its first block: its temporary file is left
\* behind, partly written, and the destination still holds the old file.
C5_Witness ==
    \E v \in 1..MaxSaves :
        /\ saves[v].pc = "dead"
        /\ files[Tmp(v)].exists
        /\ Len(files[Tmp(v)].data) = 1
        /\ files[DestPath] = File(OldImage)

GenerateErrors ==
    {"Image Generation Error: request failed",
     "Image Decode Error: illegal base64 data",
     "File Error: open failed", "File Error: write failed"}

\* The step in which the idle callback of generate g ends in a failure of the
\* request, the decode or the file write.
GenerateFails(g) ==
    gens[g].pc \in {"queued", "writing"} /\ gens'[g].pc = "failed"

\* C6 as stated: when a generate fails, the image that was displayed before
\* that generate was triggered (if any) is displayed afterwards.
C6_PreviousImageKept ==
    [][\A g \in 1..MaxGens :
          (GenerateFails(g) /\ gens[g].before /= NoPaintable) =>
              imagePaintable' = gens[g].before]_vars

\* C6 amended: when a generate fails at the request, decode or file-write
\* stage, a descriptive error status is set, the spinner is stopped and the
\* failure handling leaves the display as it found it; the image displayed
\* before the generate was triggered is not kept: the display was cleared in
\* the step that triggered the generate.
C6_FailureLeavesDisplay ==
    [][\A g \in 1..MaxGens :
          /\ (gens[g].pc = "none" /\ gens'[g].pc = "request") =>
                imagePaintable' = NoPaintable
          /\ GenerateFails(g) =>
                /\ imagePaintable' = imagePaintable
                /\ statusBar' \in GenerateErrors
                /\ ~imageSpinner']_vars

\* A generate failed after an earlier one had put its image on display: the
\* display is empty and the status names the error.
C6_Witness ==
    \E g, h \in 1..MaxGens :
        /\ gens[h].pc = "shown"
        /\ gens[g].pc = "failed"
        /\ gens[g].before = ImageBytes(h, "image")
        /\ imagePaintable = NoPaintable
        /\ statusBar \in GenerateErrors

\* C7: no goroutine touches a UI object off the UI thread.
C7_UiOnlyOnUiThread == offThread = {}

\* C8: a handler that returns early on empty input changes nothing (no row,
\* no label, no request, no status, no spinner, image or file change, no
\* callback queued), and nothing is started from empty input: every send has
\* non-empty text and every generate a non-empty prompt.
C8_EmptyInputIgnored ==
    [][/\ ignored' /= ignored =>
            UNCHANGED <<chatVars, idleQ, statusBar, offThread, loaded,
                        sysVars, settingVars, imageVars>>
       /\ nsends' /= nsends => sends'[nsends'].text /= ""
       /\ ngens' /= ngens => gens'[ngens'].prompt /= ""]_vars

\* Both handlers have returned early on empty input while a send and a
\* generate were in flight.
C8_Witness ==
    /\ ignored = {"send", "generate"}
    /\ \E s \in SendIds : sends[s].pc = "streaming"
    /\ imageSpinner

\* C10: the process never dies of a failure of a background operation.
C10_NeverCrashes == ~crashed

\* The label of the user message of a send with the given text.
UserLabel(text) == [owner |-> 0, text |-> Format("user", text)]

\* The step in which send s is started and its INSERT of the user message
\* fails.
UserAppendFails(s) ==
    sends[s].pc = "none" /\ sends'[s].pc /= "none" /\ store' = store

\* The step in which the goroutine of send s ends because its INSERT of the
\* assistant message fails.
AssistantAppendFails(s) ==
    sends[s].pc = "persist" /\ sends'[s].pc = "done" /\ store' = store

\* C11 as stated: a failed append does not stop the exchange.  When the append
\* of the user message fails the user text is displayed and the send goes on
\* to its request (the assistant label is added and the goroutine that opens
\* the stream is started); when the append of the assistant message fails the
\* displayed text is left as it is.
C11_FailedAppendContinues ==
    [][\A s \in SendIds :
          /\ UserAppendFails(s) =>
                /\ \E i \in DOMAIN chatHistory' :
                      chatHistory'[i] = UserLabel(sends'[s].text)
                /\ sends'[s].pc = "spawned"
          /\ AssistantAppendFails(s) => chatHistory' = chatHistory]_vars

\* C11 amended: a failed append is only surfaced as a status message.  When
\* the append of the user message fails, the user text stays displayed, the
\* status is set to "Error saving message" and the send ends there: no
\* assistant label is added and no request is ever opened.  When the append of
\* the assistant message fails, "Error saving response" is handed to the UI
\* thread and the displayed text is not rolled back.
C11_FailedAppendOnlyStatus ==
    [][\A s \in SendIds :
          /\ UserAppendFails(s) =>
                /\ chatHistory' = Append(chatHistory, UserLabel(sends'[s].text))
                /\ statusBar' = "Error saving message"
                /\ sends'[s].pc = "returned"
                /\ sends'[s].requests = <<>>
                /\ idleQ' = idleQ
          /\ sends[s].pc = "returned" =>
                sends'[s].pc = "returned" /\ sends'[s].requests = <<>>
          /\ AssistantAppendFails(s) =>
                /\ chatHistory' = chatHistory
                /\ idleQ' = Append(idleQ,
                       Callback("status", s, "Error saving response"))]_vars

\* One send has ended at its failed append of the user message, with its text
\* on display; another has streamed a delta to its label and then failed to
\* append its assistant message, and the label still shows the delta.
C11_Witness ==
    \E s, t \in SendIds :
        /\ sends[s].pc = "returned"
        /\ \E i \in DOMAIN chatHistory : chatHistory[i] = UserLabel(sends[s].text)
        /\ sends[t].pc = "done"
        /\ RowsOf(t, "assistant") = {}
        /\ sends[t].published = "Error saving response"
        /\ \E i \in DOMAIN chatHistory :
              /\ chatHistory[i].owner = t
              /\ chatHistory[i].text = Format("assistant", Concat(sends[t].deltas))
              /\ sends[t].deltas /= <<>>

\* C12: every request a send has opened holds exactly one message, the user
\* message with the submitted text, the model the selector showed and the
\* temperature the scale showed when the send was made.
C12_RequestCarriesSettings ==
    \A s \in SendIds :
        \A k \in DOMAIN sends[s].requests :
            /\ sends[s].requests[k].messages =
                  <<[role |-> "user", content |-> sends[s].text]>>
            /\ sends[s].requests[k].model = sends[s].chosen.model
            /\ sends[s].requests[k].temperature = <<sends[s].chosen.temperature>>

\* C13: generate overwrites the cache file in place and save copies it from a
\* goroutine, with nothing to keep the two apart.  While the idle callback of
\* a generate is inside os.WriteFile, the cache file holds a proper prefix of
\* the new payload, the write can go on, and every save can take its next
\* step (start its copy, or read the next block of the file as it is now).
C13_NoMutualExclusion ==
    (~crashed /\ uiPc /= UiLoop) =>
        /\ files[CachePath] =
              File(SubSeq(ImageBytes(uiPc.gen, gens[uiPc.gen].result), 1, uiPc.off))
        /\ uiPc.off < Len(ImageBytes(uiPc.gen, gens[uiPc.gen].result))
        /\ ENABLED (\E writeOk \in BOOLEAN : IdleImageWrite(writeOk))
        /\ \A v \in 1..MaxSaves :
              /\ saves[v].pc = "copy" => ENABLED CopyStart(v, "")
              /\ saves[v].pc = "copying" =>
                    ENABLED (\E ok \in BOOLEAN : CopyBlock(v, ok))

\* A save has copied the first block of the previous image, a generate has
\* overwritten the cache file, the save has copied the second block of the
\* new image and renamed: the destination holds neither image.
C13_Witness ==
    \E v \in 1..MaxSaves :
        /\ saves[v].pc = "saved"
        /\ gens[1].pc = "shown"
        /\ gens[2].result = "image"
        /\ files[DestPath] =
              File(<<ImageBytes(1, "image")[1], ImageBytes(2, "image")[2]>>)
        /\ files[DestPath].data /= ImageBytes(1, "image")
        /\ files[DestPath].data /= ImageBytes(2, "image")

\* C14: overlapping sends are isolated.  In every step, a label of the
\* history box changes only when the UI thread runs a per-chunk callback of
\* the send that created the label, and the accumulated text, the deltas and
\* the requests of a send change only in a step of that send's own goroutine;
\* after every step, each assistant row holds the concatenation of the deltas
\* of the stream of the send that inserted it, and has a user row of the same
\* send before it in the table.
C14_OverlappingSendsIsolated ==
    [][/\ \A i \in DOMAIN chatHistory :
             chatHistory'[i] /= chatHistory[i] =>
                 /\ idleQ /= <<>>
                 /\ idleQ' = Tail(idleQ)
                 /\ Head(idleQ).kind = "label"
                 /\ Head(idleQ).id = chatHistory[i].owner
       /\ \A s, t \in SendIds :
             (s /= t /\ sends'[t].response /= sends[t].response) =>
                 /\ sends'[s].response = sends[s].response
                 /\ sends'[s].deltas = sends[s].deltas
                 /\ sends[t].pc = "writing"
                 /\ sends'[t].response = sends[t].response \o sends[t].pending
       /\ \A s \in SendIds :
             \A i \in DOMAIN store' :
                 (store'[i].sid = s /\ store'[i].role = "assistant") =>
                     /\ store'[i].content = Concat(sends'[s].deltas)
                     /\ \E j \in 1..(i - 1) :
                           /\ store'[j].sid = s
                           /\ store'[j].role = "user"
                           /\ store'[j].content = sends'[s].text]_vars

\* Two sends overlapped: the second was started and has persisted its
\* assistant message while the first was still streaming, the two streams
\* delivered different deltas, and each assistant row and each label holds
\* the text of its own stream.
C14_Witness ==
    /\ Len(store) = 4
    /\ <<store[1].sid, store[2].sid, store[3].sid, store[4].sid>> = <<1, 2, 2, 1>>
    /\ sends[1].deltas = <<"a", "b">>
    /\ sends[2].deltas = <<"b", "a">>
    /\ store[3].content = "ba"
    /\ store[4].content = "ab"
    /\ \A s \in SendIds :
          /\ sends[s].pc = "done"
          /\ \E i \in DOMAIN chatHistory :
                /\ chatHistory[i].owner = s
                /\ chatHistory[i].text = Format("assistant", Concat(sends[s].deltas))

\* An image request that has been started and whose result the UI thread has
\* not begun to handle.
Outstanding(g) == gens[g].pc \in {"request", "queued"}

\* C15: while the process runs, the spinner is spinning exactly when at least
\* one image request is outstanding.
C15_SpinnerTracksRequests ==
    ~crashed => (imageSpinner <=> \E g \in 1..MaxGens : Outstanding(g))

====
